---- MODULE Spec2Model ----
(***************************************************************************)
(* A model of main.py, the Reddit discussion discovery tool: credential    *)
(* check, per-community retrieval (browse or search), keyword filter and   *)
(* presentation.                                                           *)
(*                                                                         *)
(* Text is a sequence of one-character strings.  None is Python's None.    *)
(***************************************************************************)
EXTENDS Integers, Sequences, FiniteSets, TLC

VARIABLES
    pc,              \* control position of the run or call under study
    trace,           \* the functions main has entered, in order
    args,            \* the parsed command line (argparse.Namespace)
    credentials,     \* get_reddit_client: the three values read from the environment
    reddit,          \* the Source Client
    subreddit_names, \* the community list given to the retrieval function
    idx,             \* retrieval loop: the position of `name` in subreddit_names
    all_posts,       \* retrieval loop: all_posts / all_results
    calls,           \* the upstream calls issued so far, each with its outcome
    posts,           \* the retrieved posts, the argument of filter_by_keywords
    keywords,        \* the keyword list
    matched,         \* the value filter_by_keywords returned
    stdout,          \* what display_posts printed
    errors,          \* logger.error records
    status,          \* how the process stands: running, exit0, exit1, exception
    text,            \* _truncate: the argument
    collapsed,       \* _truncate: the local `text` after line 214 (the argument on the early return)
    preview          \* _truncate: the returned value

runVars == <<trace, args, credentials, reddit, subreddit_names, idx, all_posts, calls,
             stdout, errors, status>>

filterVars == <<posts, keywords, matched>>

truncateVars == <<text, collapsed, preview>>

vars == <<pc, runVars, filterVars, truncateVars>>

-----------------------------------------------------------------------------
(* Python values and str methods                                           *)

None == <<"None">>

Whitespace == {" ", "\t"}

LowerChar(c) == CASE c = "A" -> "a" [] c = "B" -> "b" [] OTHER -> c

Lower(s) == [k \in 1..Len(s) |-> LowerChar(s[k])]

\* the least element of a non-empty set of integers
Least(S) == CHOOSE m \in S : \A x \in S : m <= x

Greatest(S) == CHOOSE m \in S : \A x \in S : m >= x

\* the positions of s that hold a non-whitespace character
Inked(s) == {k \in 1..Len(s) : s[k] \notin Whitespace}

LStrip(s) == IF Inked(s) = {} THEN <<>> ELSE SubSeq(s, Least(Inked(s)), Len(s))

RStrip(s) == IF Inked(s) = {} THEN <<>> ELSE SubSeq(s, 1, Greatest(Inked(s)))

Strip(s) == RStrip(LStrip(s))

\* s[:n] for n >= 0
Slice(s, n) == SubSeq(s, 1, IF n < Len(s) THEN n ELSE Len(s))

\* the length of the longest prefix of s without whitespace
WordLen(s) ==
    LET blanks == {k \in 1..Len(s) : s[k] \in Whitespace}
    IN  IF blanks = {} THEN Len(s) ELSE Least(blanks) - 1

\* s.split(): the maximal runs of non-whitespace characters, in order
RECURSIVE Split(_)
Split(s) ==
    LET t == LStrip(s)
        n == WordLen(t)
    IN  IF t = <<>> THEN <<>>
        ELSE <<SubSeq(t, 1, n)>> \o Split(SubSeq(t, n + 1, Len(t)))

\* sep.join(parts)
RECURSIVE Join(_, _)
Join(sep, parts) ==
    IF parts = <<>> THEN <<>>
    ELSE IF Len(parts) = 1 THEN parts[1]
    ELSE parts[1] \o sep \o Join(sep, Tail(parts))

\* kw in s
IsIn(kw, s) ==
    \E k \in 0..(Len(s) - Len(kw)) : SubSeq(s, k + 1, k + Len(kw)) = kw

\* `not x` for a str or None
Falsy(x) == x = None \/ x = <<>>

-----------------------------------------------------------------------------
(* Program constants                                                       *)

DEFAULT_SUBREDDITS == <<<<"p", "y", "t", "h", "o", "n">>>>

DEFAULT_LIMIT == 10

DEFAULT_KEYWORDS == <<>>

DEFAULT_SORT == "hot"

VALID_SORTS == {"hot", "new", "top", "rising"}

SEARCH_SORTS == {"relevance", "hot", "top", "new"}

BODY_PREVIEW_LENGTH == 200

Ellipsis == <<" ", ".", ".", ".">>

-----------------------------------------------------------------------------
(* Values before a run has touched them                                    *)

ArgDefaults ==
    [subreddits |-> DEFAULT_SUBREDDITS, keywords |-> <<<<>>>>, sort |-> DEFAULT_SORT,
     search |-> <<>>, limit |-> DEFAULT_LIMIT]

NoCredentials == [client_id |-> None, client_secret |-> None, user_agent |-> None]

NoClient == [constructed |-> FALSE, read_only |-> FALSE]

RunIdle ==
    /\ trace = <<>>
    /\ args = ArgDefaults
    /\ credentials = NoCredentials
    /\ reddit = NoClient
    /\ subreddit_names = <<>>
    /\ idx = 0
    /\ all_posts = <<>>
    /\ calls = <<>>
    /\ stdout = <<>>
    /\ errors = <<>>
    /\ status = "running"

FilterIdle == posts = <<>> /\ keywords = <<>> /\ matched = <<>>

TruncateIdle == text = None /\ collapsed = None /\ preview = None

-----------------------------------------------------------------------------
(* _truncate                                                               *)

CollapseWithoutSeparator(t) == Join(<<>>, Split(t))

\* line 214
Collapse(t) == Join(<<" ">>, Split(t))

TruncateKeepsTrailingSpace(t, max_length) ==
    IF Falsy(t) THEN <<>>
    ELSE LET c == Collapse(t)
         IN  IF Len(c) <= max_length THEN c
             ELSE Slice(c, max_length) \o Ellipsis

Truncate(t, max_length) ==
    IF Falsy(t) THEN <<>>
    ELSE LET c == Collapse(t)
         IN  IF Len(c) <= max_length THEN c
             ELSE RStrip(Slice(c, max_length)) \o Ellipsis

-----------------------------------------------------------------------------
(* Inputs of _truncate: bodies around the preview limit                    *)

MaxTail == 3

TailChars == {"a", " ", "\t"}

RECURSIVE Strings(_, _)
Strings(chars, n) ==
    IF n = 0 THEN {<<>>}
    ELSE LET shorter == Strings(chars, n - 1)
         IN  shorter \cup {<<c>> \o s : c \in chars, s \in {x \in shorter : Len(x) = n - 1}}

Pad(k) == [j \in 1..k |-> "a"]

PadLens == {0, BODY_PREVIEW_LENGTH - 2}

Heads == {<<>>, <<" ">>, <<"\t", " ">>}

BodyTexts ==
    {None} \cup {h \o Pad(k) \o t : h \in Heads, k \in PadLens, t \in Strings(TailChars, MaxTail)}

InitTruncate ==
    /\ pc = "truncate"
    /\ text \in BodyTexts
    /\ collapsed = None
    /\ preview = None
    /\ FilterIdle
    /\ RunIdle

CallTruncate ==
    /\ pc = "truncate"
    /\ collapsed' = IF Falsy(text) THEN text ELSE Collapse(text)
    /\ preview' = Truncate(text, BODY_PREVIEW_LENGTH)
    /\ pc' = "truncated"
    /\ UNCHANGED <<text, filterVars, runVars>>

NextTruncate == CallTruncate

SpecTruncate == InitTruncate /\ [][NextTruncate]_vars

-----------------------------------------------------------------------------
(* filter_by_keywords                                                      *)

\* line 187
KeywordsLower(kws) == [k \in 1..Len(kws) |-> Strip(Lower(kws[k]))]

\* post.selftext or ""
SelftextOrEmpty(post) == IF Falsy(post.selftext) THEN <<>> ELSE post.selftext

\* lines 191-194
AnyKeywordIn(post, kws_lower) ==
    \E k \in 1..Len(kws_lower) :
        \/ IsIn(kws_lower[k], Lower(post.title))
        \/ IsIn(kws_lower[k], Lower(SelftextOrEmpty(post)))

Reverse(s) == [k \in 1..Len(s) |-> s[Len(s) + 1 - k]]

FilterTitleOnly(ps, kws) ==
    IF kws = <<>> THEN ps
    ELSE LET kws_lower == KeywordsLower(kws)
             Keep(post) == \E k \in 1..Len(kws_lower) : IsIn(kws_lower[k], Lower(post.title))
         IN  SelectSeq(ps, Keep)

FilterWithoutEarlyReturn(ps, kws) ==
    LET kws_lower == KeywordsLower(kws)
        Keep(post) == AnyKeywordIn(post, kws_lower)
    IN  SelectSeq(ps, Keep)

FilterLastFirst(ps, kws) ==
    IF kws = <<>> THEN ps
    ELSE LET kws_lower == KeywordsLower(kws)
             Keep(post) == AnyKeywordIn(post, kws_lower)
         IN  Reverse(SelectSeq(ps, Keep))

FilterByKeywords(ps, kws) ==
    IF kws = <<>> THEN ps
    ELSE LET kws_lower == KeywordsLower(kws)
             Keep(post) == AnyKeywordIn(post, kws_lower)
         IN  SelectSeq(ps, Keep)

-----------------------------------------------------------------------------
(* Inputs of filter_by_keywords                                            *)

MaxPosts == 2

MaxKeywords == 2

Titles == {<<"d", "A", "b", "d">>, <<"d", "d">>, <<"B">>}

Bodies == {None, <<>>, <<"d", "A", "b">>}

Submissions == [title : Titles, selftext : Bodies]

Tokens == {<<"a">>, <<"B">>, <<" ", "a", "B", "\t">>, <<"c">>, <<" ">>, <<>>}

RECURSIVE Lists(_, _)
Lists(S, n) ==
    IF n = 0 THEN {<<>>}
    ELSE LET shorter == Lists(S, n - 1)
         IN  shorter \cup {<<x>> \o l : x \in S, l \in {y \in shorter : Len(y) = n - 1}}

InitFilter ==
    /\ pc = "call_filter"
    /\ posts \in Lists(Submissions, MaxPosts)
    /\ keywords \in Lists(Tokens, MaxKeywords)
    /\ matched = <<>>
    /\ TruncateIdle
    /\ RunIdle

CallFilter ==
    /\ pc = "call_filter"
    /\ matched' = FilterByKeywords(posts, keywords)
    /\ pc' = "filtered"
    /\ UNCHANGED <<posts, keywords, truncateVars, runVars>>

NextFilter == CallFilter

SpecFilter == InitFilter /\ [][NextFilter]_vars

-----------------------------------------------------------------------------
(* The Source Client: what the upstream may answer to one call             *)

PostA == [title |-> <<"d", "A", "b", "d">>, selftext |-> None]

PostB == [title |-> <<"d", "d">>, selftext |-> <<"d", "A", "b">>]

PostC == [title |-> <<"B">>, selftext |-> <<>>]

\* what a community holds; PostB is cross-posted
Feed(name) == IF name = <<"b">> THEN <<PostB, PostC>> ELSE <<PostA, PostB>>

Failure == [ok |-> FALSE, posts |-> <<>>]

\* list(fetcher(limit=limit)), list(subreddit.search(...)): an exception, or
\* at most `limit` posts of the community
Outcomes(name, limit) ==
    {Failure} \cup
    {[ok |-> TRUE, posts |-> SubSeq(Feed(name), 1, n)] :
        n \in 0..(IF limit < Len(Feed(name)) THEN limit ELSE Len(Feed(name)))}

-----------------------------------------------------------------------------
(* main: the command line                                                  *)

MaxCommunities == 3

\* the pieces of --subreddits between commas
RawNames == {<<"a">>, <<" ", "b">>, <<>>}

SubredditArgs == (Lists(RawNames, MaxCommunities) \ {<<>>}) \cup {DEFAULT_SUBREDDITS}

\* --keywords, split at commas: absent, one keyword, a keyword no post has and a blank
KeywordArgs == {<<<<>>>>, <<<<"A">>>>, <<<<"c">>, <<" ">>>>}

SearchArgs == {<<>>, <<"q">>}

Limits == {1, DEFAULT_LIMIT}

NonBlank(s) == Strip(s) # <<>>

\* line 320
StrippedNonBlank(segments) ==
    LET kept == SelectSeq(segments, NonBlank)
    IN  [k \in 1..Len(kept) |-> Strip(kept[k])]

\* lines 321-325
ParsedKeywords(segments) ==
    IF segments # <<<<>>>> THEN SelectSeq(segments, NonBlank) ELSE DEFAULT_KEYWORDS

ParseArgs ==
    /\ pc = "start"
    /\ \E subs \in SubredditArgs, kws \in KeywordArgs, sort \in VALID_SORTS,
          search \in SearchArgs, limit \in Limits :
          /\ args' = [subreddits |-> subs, keywords |-> kws, sort |-> sort,
                      search |-> search, limit |-> limit]
          /\ subreddit_names' = StrippedNonBlank(subs)
          /\ keywords' = ParsedKeywords(kws)
    /\ trace' = Append(trace, "parse_args")
    /\ pc' = "client"
    /\ UNCHANGED <<credentials, reddit, idx, all_posts, calls, stdout, errors, status,
                   posts, matched, truncateVars>>

-----------------------------------------------------------------------------
(* get_reddit_client                                                       *)

EnvValues == {None, <<>>, <<"x">>}

AnyCredential(creds) == \E f \in DOMAIN creds : ~Falsy(creds[f])

\* line 55
AllCredentials(creds) == \A f \in DOMAIN creds : ~Falsy(creds[f])

GetRedditClient ==
    /\ pc = "client"
    /\ \E id \in EnvValues, secret \in EnvValues, agent \in EnvValues :
          LET creds == [client_id |-> id, client_secret |-> secret, user_agent |-> agent]
          IN  /\ credentials' = creds
              /\ IF ~AllCredentials(creds)
                 THEN /\ errors' = Append(errors, "Missing Reddit API credentials")
                      /\ status' = "exit1"
                      /\ pc' = "exited"
                      /\ UNCHANGED reddit
                 ELSE /\ reddit' = [constructed |-> TRUE, read_only |-> TRUE]
                      /\ pc' = "retrieve"
                      /\ UNCHANGED <<errors, status>>
    /\ trace' = Append(trace, "get_reddit_client")
    /\ UNCHANGED <<args, subreddit_names, idx, all_posts, calls, stdout, filterVars,
                   truncateVars>>

-----------------------------------------------------------------------------
(* fetch_posts_from_multiple and fetch_posts                               *)

ListingMethodFallsBackToNew(sort) == IF sort \in VALID_SORTS THEN sort ELSE "new"

\* lines 95-102
ListingMethod(sort) == IF sort \in VALID_SORTS THEN sort ELSE "hot"

\* main, lines 330 and 335; fetch_posts_from_multiple, line 119
EnterBrowse ==
    /\ pc = "retrieve"
    /\ Falsy(args.search)
    /\ all_posts' = <<>>
    /\ idx' = 1
    /\ trace' = Append(trace, "fetch_posts_from_multiple")
    /\ pc' = "browse"
    /\ UNCHANGED <<args, credentials, reddit, subreddit_names, calls, stdout, errors,
                   status, filterVars, truncateVars>>

BrowseNextWithBlanks ==
    /\ pc = "browse"
    /\ idx <= Len(subreddit_names)
    /\ LET name == Strip(subreddit_names[idx])
       IN  \E outcome \in Outcomes(name, args.limit) :
               /\ calls' = Append(calls,
                      [op |-> "listing", community |-> name,
                       sort |-> ListingMethod(args.sort), query |-> <<>>,
                       limit |-> args.limit, outcome |-> outcome])
               /\ IF outcome.ok
                  THEN /\ all_posts' = all_posts \o outcome.posts
                       /\ idx' = idx + 1
                       /\ UNCHANGED <<status, pc>>
                  ELSE /\ status' = "exception"
                       /\ pc' = "aborted"
                       /\ UNCHANGED <<all_posts, idx>>
    /\ UNCHANGED <<trace, args, credentials, reddit, subreddit_names, stdout, errors,
                   filterVars, truncateVars>>

BrowseNextIsolatesFailure ==
    /\ pc = "browse"
    /\ idx <= Len(subreddit_names)
    /\ LET name == Strip(subreddit_names[idx])
       IN  IF name = <<>>
           THEN /\ idx' = idx + 1
                /\ UNCHANGED <<all_posts, calls>>
           ELSE \E outcome \in Outcomes(name, args.limit) :
                    /\ calls' = Append(calls,
                           [op |-> "listing", community |-> name,
                            sort |-> ListingMethod(args.sort), query |-> <<>>,
                            limit |-> args.limit, outcome |-> outcome])
                    /\ all_posts' = all_posts \o outcome.posts
                    /\ idx' = idx + 1
    /\ UNCHANGED <<pc, status, trace, args, credentials, reddit, subreddit_names, stdout,
                   errors, filterVars, truncateVars>>

\* one round of the loop of lines 120-125, with fetch_posts (lines 90-105)
BrowseNext ==
    /\ pc = "browse"
    /\ idx <= Len(subreddit_names)
    /\ LET name == Strip(subreddit_names[idx])
       IN  IF name = <<>>
           THEN /\ idx' = idx + 1
                /\ UNCHANGED <<all_posts, calls, status, pc>>
           ELSE \E outcome \in Outcomes(name, args.limit) :
                    /\ calls' = Append(calls,
                           [op |-> "listing", community |-> name,
                            sort |-> ListingMethod(args.sort), query |-> <<>>,
                            limit |-> args.limit, outcome |-> outcome])
                    /\ IF outcome.ok
                       THEN /\ all_posts' = all_posts \o outcome.posts
                            /\ idx' = idx + 1
                            /\ UNCHANGED <<status, pc>>
                       ELSE /\ status' = "exception"
                            /\ pc' = "aborted"
                            /\ UNCHANGED <<all_posts, idx>>
    /\ UNCHANGED <<trace, args, credentials, reddit, subreddit_names, stdout, errors,
                   filterVars, truncateVars>>

\* lines 127-132, and the assignment of main, line 335
BrowseReturn ==
    /\ pc = "browse"
    /\ idx > Len(subreddit_names)
    /\ posts' = all_posts
    /\ pc' = "filter"
    /\ UNCHANGED <<runVars, keywords, matched, truncateVars>>

-----------------------------------------------------------------------------
(* search_discussions                                                      *)

\* line 148
SearchSort(sort) == IF sort \in SEARCH_SORTS THEN sort ELSE "relevance"

\* main, lines 330-331; search_discussions, lines 147-148
EnterSearch ==
    /\ pc = "retrieve"
    /\ ~Falsy(args.search)
    /\ all_posts' = <<>>
    /\ idx' = 1
    /\ trace' = Append(trace, "search_discussions")
    /\ pc' = "search"
    /\ UNCHANGED <<args, credentials, reddit, subreddit_names, calls, stdout, errors,
                   status, filterVars, truncateVars>>

\* one round of the loop of lines 150-164
SearchNext ==
    /\ pc = "search"
    /\ idx <= Len(subreddit_names)
    /\ LET name == Strip(subreddit_names[idx])
       IN  IF name = <<>>
           THEN /\ idx' = idx + 1
                /\ UNCHANGED <<all_posts, calls, status, pc>>
           ELSE \E outcome \in Outcomes(name, args.limit) :
                    /\ calls' = Append(calls,
                           [op |-> "search", community |-> name,
                            sort |-> SearchSort(args.sort), query |-> args.search,
                            limit |-> args.limit, outcome |-> outcome])
                    /\ IF outcome.ok
                       THEN /\ all_posts' = all_posts \o outcome.posts
                            /\ idx' = idx + 1
                            /\ UNCHANGED <<status, pc>>
                       ELSE /\ status' = "exception"
                            /\ pc' = "aborted"
                            /\ UNCHANGED <<all_posts, idx>>
    /\ UNCHANGED <<trace, args, credentials, reddit, subreddit_names, stdout, errors,
                   filterVars, truncateVars>>

\* lines 166-167, and the assignment of main, line 331
SearchReturn ==
    /\ pc = "search"
    /\ idx > Len(subreddit_names)
    /\ posts' = all_posts
    /\ pc' = "filter"
    /\ UNCHANGED <<runVars, keywords, matched, truncateVars>>

-----------------------------------------------------------------------------
(* display_posts                                                           *)

\* one print call: what it prints, for which post (0: none), with which text
Line(kind, index, body) == [kind |-> kind, index |-> index, body |-> body]

Notice == Line("notice", 0, <<>>)

\* lines 241-256
PostBlock(k, post) ==
    LET p == Truncate(post.selftext, BODY_PREVIEW_LENGTH)
    IN  <<Line("title", k, post.title), Line("sub", k, <<>>), Line("author", k, <<>>),
          Line("score", k, <<>>), Line("date", k, <<>>), Line("link", k, <<>>)>>
        \o (IF ~Falsy(p) THEN <<Line("preview", k, p)>> ELSE <<>>)
        \o <<Line("separator", k, <<>>)>>

\* lines 237-256, for the posts from position k on
RECURSIVE PostBlocks(_, _)
PostBlocks(ps, k) ==
    IF k > Len(ps) THEN <<>> ELSE PostBlock(k, ps[k]) \o PostBlocks(ps, k + 1)

\* lines 232-235
Header(ps) ==
    <<Line("rule", 0, <<>>), Line("banner", 0, <<>>), Line("rule", 0, <<>>),
      Line("count", Len(ps), <<>>)>>

DisplayPostsHeaderFirst(ps) ==
    IF Len(ps) = 0 THEN Header(ps) \o <<Notice>>
    ELSE Header(ps) \o PostBlocks(ps, 1) \o <<Line("blank", 0, <<>>)>>

\* lines 226-258: the print calls, in order
DisplayPosts(ps) ==
    IF Len(ps) = 0 THEN <<Notice>>
    ELSE Header(ps) \o PostBlocks(ps, 1) \o <<Line("blank", 0, <<>>)>>

-----------------------------------------------------------------------------
(* main: filter and presentation                                           *)

\* line 339
MainFilter ==
    /\ pc = "filter"
    /\ matched' = FilterByKeywords(posts, keywords)
    /\ trace' = Append(trace, "filter_by_keywords")
    /\ pc' = "display"
    /\ UNCHANGED <<args, credentials, reddit, subreddit_names, idx, all_posts, calls,
                   stdout, errors, status, posts, keywords, truncateVars>>

\* line 340, and the return of main
MainDisplay ==
    /\ pc = "display"
    /\ stdout' = stdout \o DisplayPosts(matched)
    /\ trace' = Append(trace, "display_posts")
    /\ status' = "exit0"
    /\ pc' = "done"
    /\ UNCHANGED <<args, credentials, reddit, subreddit_names, idx, all_posts, calls,
                   errors, filterVars, truncateVars>>

Init ==
    /\ pc = "start"
    /\ RunIdle
    /\ FilterIdle
    /\ TruncateIdle

Next ==
    \/ ParseArgs
    \/ GetRedditClient
    \/ EnterBrowse
    \/ BrowseNext
    \/ BrowseReturn
    \/ EnterSearch
    \/ SearchNext
    \/ SearchReturn
    \/ MainFilter
    \/ MainDisplay

Spec == Init /\ [][Next]_vars

-----------------------------------------------------------------------------
(* The retrieval functions called with any community list and any sort     *)

SortInputs == VALID_SORTS \cup SEARCH_SORTS \cup {"invalid"}

InitRetrieval ==
    /\ pc = "retrieve"
    /\ trace = <<>>
    /\ \E sort \in SortInputs, search \in SearchArgs, limit \in Limits :
          args = [subreddits |-> <<>>, keywords |-> <<<<>>>>, sort |-> sort,
                  search |-> search, limit |-> limit]
    /\ credentials = [client_id |-> <<"x">>, client_secret |-> <<"x">>, user_agent |-> <<"x">>]
    /\ reddit = [constructed |-> TRUE, read_only |-> TRUE]
    /\ subreddit_names \in Lists(RawNames, MaxCommunities)
    /\ idx = 0
    /\ all_posts = <<>>
    /\ calls = <<>>
    /\ stdout = <<>>
    /\ errors = <<>>
    /\ status = "running"
    /\ FilterIdle
    /\ TruncateIdle

NextRetrieval ==
    \/ EnterBrowse
    \/ BrowseNext
    \/ BrowseReturn
    \/ EnterSearch
    \/ SearchNext
    \/ SearchReturn

SpecRetrieval == InitRetrieval /\ [][NextRetrieval]_vars

-----------------------------------------------------------------------------
(* Properties of _truncate                                                 *)

KeepMark(m) == m.c \notin Whitespace \/ ~m.follows

\* s with every maximal run of whitespace replaced by one space
RunsToSpace(s) ==
    LET marked == [k \in 1..Len(s) |->
                     [c |-> s[k], follows |-> k > 1 /\ s[k - 1] \in Whitespace]]
        kept == SelectSeq(marked, KeepMark)
    IN  [k \in 1..Len(kept) |-> IF kept[k].c \in Whitespace THEN " " ELSE kept[k].c]

EndsWithEllipsis(s) ==
    Len(s) >= Len(Ellipsis) /\ SubSeq(s, Len(s) - Len(Ellipsis) + 1, Len(s)) = Ellipsis

Truncated == pc = "truncated" /\ text # None

\* C7 as stated: a collapsed body of at most BODY_PREVIEW_LENGTH characters is
\* returned in full; a longer one is returned as exactly its first
\* BODY_PREVIEW_LENGTH characters followed by " ...".
C7_AsStated ==
    Truncated =>
        IF Len(collapsed) <= BODY_PREVIEW_LENGTH
        THEN preview = collapsed
        ELSE preview = SubSeq(collapsed, 1, BODY_PREVIEW_LENGTH) \o Ellipsis

\* C7 amended: a collapsed body of at most BODY_PREVIEW_LENGTH characters is
\* returned in full; a longer one is returned as its first BODY_PREVIEW_LENGTH
\* characters followed by " ...", except that when the last of those characters
\* is a space, that space is left out.
C7_Truncate ==
    Truncated =>
        IF Len(collapsed) <= BODY_PREVIEW_LENGTH
        THEN preview = collapsed
        ELSE IF collapsed[BODY_PREVIEW_LENGTH] = " "
        THEN preview = SubSeq(collapsed, 1, BODY_PREVIEW_LENGTH - 1) \o Ellipsis
        ELSE preview = SubSeq(collapsed, 1, BODY_PREVIEW_LENGTH) \o Ellipsis

C7_Witness ==
    /\ Truncated
    /\ Len(collapsed) > BODY_PREVIEW_LENGTH
    /\ collapsed[BODY_PREVIEW_LENGTH] = " "
    /\ Len(preview) = BODY_PREVIEW_LENGTH - 1 + Len(Ellipsis)

\* C10 as stated: the collapsed form is the body with every maximal run of
\* whitespace, leading and trailing runs included, replaced by a single space.
C10_AsStated ==
    Truncated /\ text # <<>> => collapsed = RunsToSpace(text)

\* C10 amended: the collapsed form is the body with leading and trailing
\* whitespace removed and every other maximal run of whitespace replaced by a
\* single space; the preview is the collapsed form in full exactly when that
\* form has at most BODY_PREVIEW_LENGTH characters, and ends in " ..." otherwise.
C10_Collapse ==
    Truncated =>
        /\ collapsed = RunsToSpace(Strip(text))
        /\ Len(collapsed) <= BODY_PREVIEW_LENGTH => preview = collapsed
        /\ Len(collapsed) > BODY_PREVIEW_LENGTH =>
               /\ EndsWithEllipsis(preview)
               /\ Len(preview) <= BODY_PREVIEW_LENGTH + Len(Ellipsis)

C10_Witness ==
    /\ Truncated
    /\ text # <<>>
    /\ text[1] \in Whitespace
    /\ text[Len(text)] \in Whitespace
    /\ Len(text) > Len(collapsed) + 2
    /\ \E k \in 1..Len(collapsed) : collapsed[k] = " "

-----------------------------------------------------------------------------
(* Properties of filter_by_keywords                                        *)

Filtered == pc = "filtered"

\* the post at position j of the input occurs in the result
Kept(j) == \E m \in 1..Len(matched) : matched[m] = posts[j]

\* characters a, b folded to one case; what lower-casing must identify
SameLetters(s, t) ==
    /\ Len(s) = Len(t)
    /\ \A k \in 1..Len(s) :
          \/ s[k] = t[k]
          \/ {s[k], t[k]} \in {{"a", "A"}, {"b", "B"}}

\* some stretch of s equals kw up to letter case
OccursIgnoringCase(kw, s) ==
    \E k \in 0..(Len(s) - Len(kw)) : SameLetters(SubSeq(s, k + 1, k + Len(kw)), kw)

\* kw without its leading and trailing whitespace
Trimmed(kw) ==
    LET ink == {k \in 1..Len(kw) : kw[k] \notin Whitespace}
    IN  IF ink = {} THEN <<>>
        ELSE SubSeq(kw, CHOOSE a \in ink : \A x \in ink : a <= x,
                        CHOOSE b \in ink : \A x \in ink : b >= x)

BodyOf(post) == IF post.selftext = None THEN <<>> ELSE post.selftext

\* C1: with a non-empty list of non-empty keywords, a post is kept iff some
\* keyword, trimmed, occurs ignoring case as a substring of its title or of
\* its body (an absent body counting as empty).
C1_KeptIffKeywordOccurs ==
    Filtered /\ keywords # <<>> /\ (\A k \in 1..Len(keywords) : keywords[k] # <<>>) =>
        \A j \in 1..Len(posts) :
            Kept(j) <=>
                \E k \in 1..Len(keywords) :
                    \/ OccursIgnoringCase(Trimmed(keywords[k]), posts[j].title)
                    \/ OccursIgnoringCase(Trimmed(keywords[k]), BodyOf(posts[j]))

\* a post kept through its body alone by a padded keyword of another case,
\* next to a post that is dropped
C1_Witness ==
    /\ Filtered
    /\ keywords = <<<<"c">>, <<" ", "a", "B", "\t">>>>
    /\ Len(posts) = 2
    /\ posts[1] = [title |-> <<"d", "d">>, selftext |-> <<"d", "A", "b">>]
    /\ posts[2] = [title |-> <<"B">>, selftext |-> <<>>]
    /\ matched = <<posts[1]>>

\* C2: with an empty keyword list the result is the input sequence.
C2_EmptyKeywordsIdentity ==
    Filtered /\ keywords = <<>> => matched = posts

C2_Witness ==
    Filtered /\ keywords = <<>> /\ Len(posts) = MaxPosts /\ matched = posts

RECURSIVE IsSubsequence(_, _)
IsSubsequence(a, b) ==
    IF a = <<>> THEN TRUE
    ELSE IF b = <<>> THEN FALSE
    ELSE IF Head(a) = Head(b) THEN IsSubsequence(Tail(a), Tail(b))
    ELSE IsSubsequence(a, Tail(b))

\* C3: the result is a subsequence of the input: its posts are posts of the
\* input, taken at increasing positions.
C3_Subsequence ==
    Filtered => IsSubsequence(matched, posts)

\* two different posts kept, one dropped or not
C3_Witness ==
    /\ Filtered
    /\ keywords # <<>>
    /\ Len(matched) >= 2
    /\ matched[1] # matched[2]
    /\ Len(matched) < Len(posts) \/ Len(posts) = MaxPosts

-----------------------------------------------------------------------------
(* Properties of the retrieval functions                                   *)

Returned == pc = "filter"

BrowseMode == args.search = <<>>

Entered(f) == \E k \in 1..Len(trace) : trace[k] = f

\* the entries that are not blank, trimmed, in order
RECURSIVE NamedCommunities(_)
NamedCommunities(names) ==
    IF names = <<>> THEN <<>>
    ELSE (IF Trimmed(Head(names)) = <<>> THEN <<>> ELSE <<Trimmed(Head(names))>>)
         \o NamedCommunities(Tail(names))

\* the listings the upstream returned, one after the other
RECURSIVE Listings(_)
Listings(log) ==
    IF log = <<>> THEN <<>> ELSE Head(log).outcome.posts \o Listings(Tail(log))

\* C4: when no upstream call fails, fetch_posts_from_multiple issues one
\* listing call per entry that is not blank after trimming, in input order,
\* and returns the concatenation of what the upstream returned, duplicates
\* included.
C4_Concatenation ==
    Returned /\ BrowseMode =>
        /\ [k \in 1..Len(calls) |-> calls[k].community] = NamedCommunities(subreddit_names)
        /\ \A k \in 1..Len(calls) :
              /\ calls[k].op = "listing"
              /\ calls[k].limit = args.limit
              /\ calls[k].outcome.ok
        /\ posts = Listings(calls)

\* a blank entry between two communities that share a post
C4_Witness ==
    /\ Returned
    /\ BrowseMode
    /\ subreddit_names = <<<<"a">>, <<>>, <<" ", "b">>>>
    /\ Len(calls) = 2
    /\ posts = <<PostA, PostB, PostB, PostC>>

\* an upstream call failed
UpstreamFailed == \E k \in 1..Len(calls) : ~calls[k].outcome.ok

\* C5: a listing call uses the requested sort when it is one of hot, new,
\* top, rising and hot otherwise; a search call uses the requested sort when
\* it is one of relevance, hot, top, new and relevance otherwise; the run
\* raises nothing unless the upstream fails.
C5_SortFallback ==
    /\ \A k \in 1..Len(calls) :
          /\ calls[k].op = "listing" =>
                calls[k].sort =
                    (IF args.sort \in {"hot", "new", "top", "rising"} THEN args.sort ELSE "hot")
          /\ calls[k].op = "search" =>
                calls[k].sort =
                    (IF args.sort \in {"relevance", "hot", "top", "new"}
                     THEN args.sort ELSE "relevance")
    /\ status = "exception" => UpstreamFailed

C5_Witness ==
    /\ Returned
    /\ BrowseMode
    /\ args.sort = "invalid"
    /\ Len(calls) = MaxCommunities
    /\ \A k \in 1..Len(calls) : calls[k].sort = "hot" /\ calls[k].outcome.ok
    /\ posts # <<>>

-----------------------------------------------------------------------------
(* Properties of a run of main                                             *)

\* C6: once an upstream call has failed, it is the last call issued, the run
\* has stopped with the exception, filter_by_keywords and display_posts are
\* never entered and nothing is printed.
C6_FailurePropagates ==
    UpstreamFailed =>
        /\ \A k \in 1..Len(calls) : ~calls[k].outcome.ok => k = Len(calls)
        /\ pc = "aborted"
        /\ status = "exception"
        /\ ~Entered("filter_by_keywords")
        /\ ~Entered("display_posts")
        /\ matched = <<>>
        /\ stdout = <<>>

\* a failure in the middle of the list, after posts were collected
C6_Witness ==
    /\ UpstreamFailed
    /\ Len(calls) = 2
    /\ all_posts # <<>>
    /\ idx = 2
    /\ Len(subreddit_names) = 3
    /\ pc = "aborted"

\* C8: display_posts given no post prints the notice and nothing else; given
\* posts it prints the report and never the notice; nothing is printed
\* before display_posts runs.
C8_EmptyNotice ==
    IF Entered("display_posts")
    THEN IF Len(matched) = 0
         THEN stdout = <<Notice>>
         ELSE /\ \A k \in 1..Len(stdout) : stdout[k].kind # "notice"
              /\ \E k \in 1..Len(stdout) : stdout[k].kind = "count" /\ stdout[k].index = Len(matched)
              /\ \A j \in 1..Len(matched) :
                    \E k \in 1..Len(stdout) :
                        stdout[k] = Line("title", j, matched[j].title)
    ELSE stdout = <<>>

\* the keyword filter removed every fetched post
C8_Witness ==
    /\ Entered("display_posts")
    /\ Len(posts) > 0
    /\ Len(matched) = 0
    /\ stdout = <<Notice>>

CredentialMissing ==
    \E f \in {"client_id", "client_secret", "user_agent"} :
        credentials[f] = None \/ credentials[f] = <<>>

\* C9: when get_reddit_client finds a credential missing or empty, the error
\* is logged once, the process exits with status 1, no client is constructed,
\* no upstream call is issued, nothing is filtered and nothing is printed.
C9_MissingCredentials ==
    Entered("get_reddit_client") /\ CredentialMissing =>
        /\ Len(errors) = 1
        /\ status = "exit1"
        /\ pc = "exited"
        /\ ~reddit.constructed
        /\ calls = <<>>
        /\ ~Entered("fetch_posts_from_multiple")
        /\ ~Entered("search_discussions")
        /\ ~Entered("filter_by_keywords")
        /\ ~Entered("display_posts")
        /\ stdout = <<>>

\* only the user agent is empty
C9_Witness ==
    /\ pc = "exited"
    /\ credentials = [client_id |-> <<"x">>, client_secret |-> <<"x">>, user_agent |-> <<>>]
    /\ Len(errors) = 1
    /\ status = "exit1"

====
